---- MODULE Spec2Model ----
(***************************************************************************)
(* A model of the CTN news platform backend: the search route              *)
(* (backend/routes/news.js) and the CtnAiService it drives (article        *)
(* retrieval, the three-tier bias analysis, summarisation), with the       *)
(* process-wide cache they share.  The search provider (Exa) and the LLM   *)
(* provider are the environment: their answers are drawn from small sets.  *)
(***************************************************************************)
EXTENDS Integers, Sequences, FiniteSets, TLC

VARIABLES
    now,        \* the clock, in seconds
    ticks,      \* how often the clock has advanced (bounded)
    ctnCache,   \* the NodeCache: key -> [v |-> value, t |-> expiry instant]
    call,       \* the invocations of ctnSearchNewsArticles
    exaCalls,   \* per invocation, the provider searches it has issued
    job,        \* the invocations of ctnAnalyzePoliticalBias
    sum,        \* the invocations of ctnGenerateNeutralSummary
    req,        \* the request served by GET /api/news/search
    client      \* the browser: the debounced search and the bias category shown

vars == <<now, ticks, ctnCache, call, exaCalls, job, sum, req, client>>

-----------------------------------------------------------------------------
(* Bounds of the model *)

\* the longest raw ?limit= string a request carries
MaxLen == 2
\* how often the clock advances in one behaviour
MaxTicks == 3
\* how many calls the debounced function gets, and for how many milliseconds
\* the browser is watched
MaxCalls == 3
MaxClock == 5

-----------------------------------------------------------------------------
(* JavaScript values.  Every value is a record with a type tag t, so that   *)
(* any two values can be compared.                                          *)

Undefined == [t |-> "undefined"]
JsNull == [t |-> "null"]
NaN == [t |-> "NaN"]
\* the number n/d (d > 0); integers have d = 1
Num(n, d) == [t |-> "number", n |-> n, d |-> d]
JsInt(n) == Num(n, 1)
\* a string, as its sequence of characters
Str(s) == [t |-> "string", s |-> s]

Min(a, b) == IF a <= b THEN a ELSE b
Max(a, b) == IF a >= b THEN a ELSE b

IsDigit(c) == c \in {"0", "1", "2", "3", "4", "5", "6", "7", "8", "9"}

DigitValue(c) ==
    CASE c = "0" -> 0 [] c = "1" -> 1 [] c = "2" -> 2 [] c = "3" -> 3
      [] c = "4" -> 4 [] c = "5" -> 5 [] c = "6" -> 6 [] c = "7" -> 7
      [] c = "8" -> 8 [] c = "9" -> 9

RECURSIVE DigitsValue(_)
DigitsValue(ds) ==
    IF ds = <<>> THEN 0
    ELSE 10 * DigitsValue(SubSeq(ds, 1, Len(ds) - 1)) + DigitValue(ds[Len(ds)])

\* the length of the longest prefix of s made of digits
RECURSIVE DigitPrefix(_)
DigitPrefix(s) ==
    IF s = <<>> \/ ~IsDigit(s[1]) THEN 0 ELSE 1 + DigitPrefix(Tail(s))

\* ToNumber of a string (no blanks, no exponent, no fraction in the alphabet):
\* the whole string has to be a number; the empty string is 0
StringToNumber(s) ==
    IF s = <<>> THEN JsInt(0)
    ELSE LET neg == s[1] = "-"
             ds == IF neg THEN Tail(s) ELSE s
         IN IF ds # <<>> /\ DigitPrefix(ds) = Len(ds)
            THEN JsInt((IF neg THEN -1 ELSE 1) * DigitsValue(ds))
            ELSE NaN

ToNumber(v) ==
    CASE v.t = "number" -> v
      [] v.t = "string" -> StringToNumber(v.s)
      [] v.t = "null" -> JsInt(0)
      [] OTHER -> NaN

\* parseInt of a string: an optional sign and the longest run of digits after
\* it; whatever follows is ignored
ParseIntString(s) ==
    LET neg == s # <<>> /\ s[1] = "-"
        ds == IF neg THEN Tail(s) ELSE s
        k == DigitPrefix(ds)
    IN IF k = 0 THEN NaN
       ELSE JsInt((IF neg THEN -1 ELSE 1) * DigitsValue(SubSeq(ds, 1, k)))

\* parseInt(v) for the values the route hands it: a number (the default 10)
\* prints as itself, a string is parsed
ParseInt(v) ==
    CASE v.t = "number" -> v
      [] v.t = "string" -> ParseIntString(v.s)
      [] OTHER -> NaN

\* v > k for an integer k: the operand is converted with ToNumber and any
\* comparison with NaN is false
JsGreater(v, k) ==
    LET x == ToNumber(v) IN x.t = "number" /\ x.n > k * x.d

\* a value's truthiness
Truthy(v) ==
    CASE v.t \in {"undefined", "null", "NaN"} -> FALSE
      [] v.t = "number" -> v.n # 0
      [] v.t = "string" -> v.s # <<>>
      [] OTHER -> TRUE

\* a || b
JsOr(a, b) == IF Truthy(a) THEN a ELSE b

\* Array.prototype.slice(0, end) on a sequence: NaN is 0, a negative end counts
\* from the back
SliceTo(s, end) ==
    LET e == IF end.t # "number" THEN 0
             ELSE IF end.n < 0 THEN Max(Len(s) + end.n, 0)
             ELSE Min(end.n, Len(s))
    IN SubSeq(s, 1, e)

-----------------------------------------------------------------------------
(* The cache (node-cache, stdTTL 1800): get answers undefined for a key      *)
(* that is absent or expired, set stores the value with its expiry.         *)

stdTTL == 1800
SourceTTL == 86400

\* CacheGet on a cache that never has the key
CacheGetMiss(c, k, t) ==
    Undefined

CacheGet(c, k, t) ==
    IF k \in DOMAIN c /\ c[k].t >= t THEN c[k].v ELSE Undefined

\* CacheSet with the ttl argument ignored: every entry gets the default TTL
CacheSetDefaultTTL(c, k, v, ttl, t) ==
    [x \in DOMAIN c \cup {k} |-> IF x = k THEN [v |-> v, t |-> t + stdTTL] ELSE c[x]]

\* CacheSet that leaves an entry alone once it is there
CacheSetOnce(c, k, v, ttl, t) ==
    [x \in DOMAIN c \cup {k} |->
        IF x = k /\ k \notin DOMAIN c THEN [v |-> v, t |-> t + ttl] ELSE c[x]]

CacheSet(c, k, v, ttl, t) ==
    [x \in DOMAIN c \cup {k} |-> IF x = k THEN [v |-> v, t |-> t + ttl] ELSE c[x]]

\* the entries that are still alive at t
CachePurge(c, t) ==
    [x \in {k \in DOMAIN c : c[k].t >= t} |-> c[x]]

-----------------------------------------------------------------------------
(* Article retrieval: CtnAiService.ctnSearchNewsArticles                     *)

\* the four provider searches: liberal, conservative, center, mixed
Categories == 1 .. 4

\* URLs, as the labels of the host name and a path; the empty host stands for
\* a string that is no URL
UrlVox == [host |-> <<"www", "vox", "com">>, path |-> "a"]
UrlFox == [host |-> <<"foxnews", "com">>, path |-> "b"]
UrlBad == [host |-> <<>>, path |-> ""]

\* new URL(url).hostname with 'www.' removed, up to the first dot;
\* 'Unknown Source' when the URL does not parse
ctnExtractSourceDomain(url) ==
    IF url.host = <<>> THEN "Unknown Source"
    ELSE IF url.host[1] = "www" /\ Len(url.host) > 1 THEN url.host[2]
    ELSE url.host[1]

PlaceholderImage == "images.unsplash.com/photo-1504711434969"

\* one provider hit as an Article (the map at the end of the retrieval);
\* an absent field of a hit is the empty string, which is as falsy
ctnArticle(result, t) ==
    [ title |-> IF result.title # <<>> THEN result.title ELSE <<"Untitled Article">>,
      content |-> IF result.text # <<>> THEN result.text
                  ELSE IF result.summary # <<>> THEN result.summary
                  ELSE <<"No content available">>,
      source |-> ctnExtractSourceDomain(result.url),
      url |-> result.url,
      publishedAt |-> IF result.publishedDate # 0 THEN result.publishedDate ELSE t,
      author |-> IF result.author # "" THEN result.author ELSE "null",
      imageUrl |-> IF result.image # "" THEN result.image
                   ELSE IF result.imageUrl # "" THEN result.imageUrl
                   ELSE IF result.featuredImage # "" THEN result.featuredImage
                   ELSE IF result.thumbnail # "" THEN result.thumbnail
                   ELSE PlaceholderImage ]

\* the results of the four searches, in the order the searches were pushed;
\* a response without a results field contributes nothing
RECURSIVE ctnAllResults(_, _)
ctnAllResults(prov, i) ==
    IF i > 4 THEN <<>>
    ELSE (IF prov[i].has THEN prov[i].results ELSE <<>>) \o ctnAllResults(prov, i + 1)

\* what the retrieval logs about its result, noted when it is returned: the
\* n-th article is made of the n-th of the hits that no earlier place has the
\* url of, for as many articles as there are
FirstSeenWins(prov, articles, t) ==
    LET hit(p) == prov[p[1]].results[p[2]]
        \* the places of the hits in the answers of the four searches: the
        \* number of the search (1 liberal, 2 conservative, 3 center, 4 mixed)
        \* and the position in its results
        Places ==
            UNION {{<<i, k>> : k \in 1 .. (IF prov[i].has THEN Len(prov[i].results) ELSE 0)} :
                     i \in Categories}
        Earlier(p, q) == p[1] < q[1] \/ (p[1] = q[1] /\ p[2] < q[2])
        firsts == {p \in Places :
                     \A q \in Places : Earlier(q, p) => hit(q).url # hit(p).url}
    IN /\ Len(articles) <= Cardinality(firsts)
       /\ \A n \in 1 .. Len(articles) :
             \E p \in firsts :
                /\ Cardinality({q \in firsts : Earlier(q, p)}) = n - 1
                /\ articles[n] = ctnArticle(hit(p), t)

\* ctnUniqueResults with the last hit of a url kept instead of the first
ctnUniqueLast(all) ==
    LET keep(i) == \A j \in i + 1 .. Len(all) : all[j].url # all[i].url
        F[i \in 0 .. Len(all)] ==
            IF i = 0 THEN <<>>
            ELSE IF keep(i) THEN Append(F[i - 1], all[i]) ELSE F[i - 1]
    IN F[Len(all)]

\* ctnUniqueResults without the filter: every hit is kept
ctnAllKept(all) == all

\* the filter over seenUrls: a hit is kept when no earlier hit has its url
ctnUniqueResults(all) ==
    LET keep(i) == \A j \in 1 .. i - 1 : all[j].url # all[i].url
        F[i \in 0 .. Len(all)] ==
            IF i = 0 THEN <<>>
            ELSE IF keep(i) THEN Append(F[i - 1], all[i]) ELSE F[i - 1]
    IN F[Len(all)]

\* ctnTransform without the slice: every unique hit becomes an article
ctnTransformUncut(unique, limit, t) ==
    [i \in 1 .. Len(unique) |-> ctnArticle(unique[i], t)]

\* uniqueResults.slice(0, limit).map(...)
ctnTransform(unique, limit, t) ==
    LET cut == SliceTo(unique, limit)
    IN [i \in 1 .. Len(cut) |-> ctnArticle(cut[i], t)]

ctnNewsKey(query, sources, limit) == <<"ctn_news", query, sources, limit>>

\* the five fabricated articles of the fallback
ctnFallbackArticles(t) ==
    LET fb(title, source, path, author, image, hours) ==
            [ title |-> <<title>>, content |-> <<title>>, source |-> source,
              url |-> [host |-> <<"example", "com">>, path |-> path],
              publishedAt |-> t - hours * 3600, author |-> author, imageUrl |-> image ]
    IN << fb("AI Safety Initiative", "TechNews Daily", "ai-safety-initiative",
             "Sarah Mitchell", "photo-1677442136019", 2),
          fb("Carbon Capture Technology", "Environmental Science Today",
             "carbon-capture-breakthrough", "Dr. Michael Chen", "photo-1569163139394", 4),
          fb("Global Markets React", "Financial Review", "market-reaction-policy",
             "Jennifer Rodriguez", "photo-1611974789855", 6),
          fb("Alzheimer's Treatment", "Medical Journal Weekly", "alzheimers-drug-trial",
             "Dr. Amanda Foster", "photo-1582719508461", 8),
          fb("Mars Mission Announced", "Space Technology Review",
             "mars-mission-collaboration", "Dr. James Parker", "photo-1446776653964", 10) >>

NewsData(articles) == [t |-> "object", articles |-> articles]

Pending == [st |-> "pending"]
Fulfilled(has, results) == [st |-> "fulfilled", has |-> has, results |-> results]

IdleCall ==
    [ pc |-> "idle", query |-> "", sources |-> "", limit |-> NaN,
      prov |-> [i \in Categories |-> Pending], out |-> Undefined,
      log |-> [unique |-> 0, total |-> 0, firstSeen |-> TRUE], how |-> "", cause |-> "", at |-> 0 ]

\* the call up to its first await: the cache look-up, then the four searches
ctnSearchNewsArticles(c, query, sources, limit) ==
    LET cached == CacheGet(ctnCache, ctnNewsKey(query, sources, limit), now)
        base == [IdleCall EXCEPT !.query = query, !.sources = sources,
                                 !.limit = limit, !.at = now]
    IN IF Truthy(cached)
       THEN /\ call' = [call EXCEPT ![c] = [base EXCEPT !.pc = "resolved",
                                                       !.out = cached, !.how = "cache"]]
            /\ exaCalls' = [exaCalls EXCEPT ![c] = 0]
            /\ UNCHANGED ctnCache
       ELSE /\ call' = [call EXCEPT ![c] = [base EXCEPT !.pc = "awaiting"]]
            /\ exaCalls' = [exaCalls EXCEPT ![c] = 4]
            /\ UNCHANGED ctnCache

\* the try block after the race: merge, de-duplicate, log the two counts,
\* truncate, store, return
ctnSearchSucceed(c, prov) ==
    LET k == ctnNewsKey(call[c].query, call[c].sources, call[c].limit)
        allResults == ctnAllResults(prov, 1)
        unique == ctnUniqueResults(allResults)
        articles == NewsData(ctnTransform(unique, call[c].limit, now))
    IN /\ ctnCache' = CacheSet(ctnCache, k, articles, stdTTL, now)
       /\ call' = [call EXCEPT ![c].pc = "resolved", ![c].prov = IdleCall.prov,
                               ![c].log = [unique |-> Len(unique),
                                           total |-> Len(allResults),
                                           firstSeen |->
                                               FirstSeenWins(prov, articles.articles, now)],
                               ![c].out = articles, ![c].how = "search"]

\* the catch block: it builds the fallback articles and then reads cacheKey,
\* a const of the try block that is out of scope here, so the statement throws
\* a ReferenceError and the call rejects with nothing stored
ctnSearchCatch(c, cause) ==
    /\ call' = [call EXCEPT ![c].pc = "rejected", ![c].prov = IdleCall.prov,
                            ![c].how = "cacheKey is not defined", ![c].cause = cause]
    /\ UNCHANGED ctnCache

\* provider search i of call c answers
ExaFulfil(c, i, has, results) ==
    /\ call[c].pc = "awaiting"
    /\ call[c].prov[i] = Pending
    /\ LET prov == [call[c].prov EXCEPT ![i] = Fulfilled(has, results)]
       IN IF \A j \in Categories : prov[j].st = "fulfilled"
          THEN ctnSearchSucceed(c, prov)
          ELSE /\ call' = [call EXCEPT ![c].prov = prov]
               /\ UNCHANGED ctnCache
    /\ UNCHANGED <<now, ticks, exaCalls, job, sum, req, client>>

\* provider search i of call c fails: Promise.all rejects and so does the race
ExaReject(c, i) ==
    /\ call[c].pc = "awaiting"
    /\ call[c].prov[i] = Pending
    /\ ctnSearchCatch(c, "provider")
    /\ UNCHANGED <<now, ticks, exaCalls, job, sum, req, client>>

\* ExaTimeout without the timer: the race is left to the four searches
ExaTimeoutNever(c) == FALSE /\ UNCHANGED vars

\* the 10 second timer fires before the four searches have answered
ExaTimeout(c) ==
    /\ call[c].pc = "awaiting"
    /\ ctnSearchCatch(c, "timeout")
    /\ UNCHANGED <<now, ticks, exaCalls, job, sum, req, client>>

-----------------------------------------------------------------------------
(* Arithmetic on JavaScript numbers, held exactly as fractions n/d           *)

\* Euclid's algorithm on a pair of naturals
Gcd(a, b) ==
    LET G[p \in Nat \X Nat] == IF p[2] = 0 THEN p[1] ELSE G[<<p[2], p[1] % p[2]>>]
    IN G[<<a, b>>]

Abs(a) == LET A[x \in Int] == IF x < 0 THEN -x ELSE x IN A[a]

\* the fraction n/d in lowest terms
Frac(n, d) ==
    LET F[p \in Int \X Int] ==
            LET g == Gcd(Abs(p[1]), p[2]) IN Num(p[1] \div g, p[2] \div g)
    IN F[<<n, d>>]

Less(x, y) == \E a \in {x}, b \in {y} : a.n * b.d < b.n * a.d

\* Math.min(k, v) and Math.max(k, v) for a number k: v is converted with
\* ToNumber, and NaN is contagious
MathMin(k, v) ==
    LET x == ToNumber(v)
    IN IF x.t # "number" THEN NaN ELSE IF Less(x, k) THEN x ELSE k

MathMax(k, v) ==
    LET x == ToNumber(v)
    IN IF x.t # "number" THEN NaN ELSE IF Less(k, x) THEN x ELSE k

\* Math.round: to the nearest integer, halves upwards
MathRound(x) == CHOOSE r \in {JsInt((2 * v.n + v.d) \div (2 * v.d)) : v \in {x}} : TRUE

-----------------------------------------------------------------------------
(* The LLM provider's answers and ctnParseJsonResponse                       *)

\* text that is no JSON document, with or without a markdown fence
Garbage == [t |-> "garbage"]

\* a completion: the JSON document (or garbage) it carries, fenced or not
LlmText(fenced, json) == [kind |-> "text", fenced |-> fenced, json |-> json]
\* the call rejected, or the completion has no content block
LlmError == [kind |-> "error"]

Thrown == [ok |-> FALSE, v |-> Undefined]
Returned(v) == [ok |-> TRUE, v |-> v]

\* JSON.parse(content): a fenced document does not parse as it stands
JsonParse(fenced, json) ==
    IF fenced \/ json = Garbage THEN Thrown ELSE Returned(json)

\* parse as is, else strip the ```json fences and parse again, else throw
ctnParseJsonResponse(text) ==
    LET first == JsonParse(text.fenced, text.json)
    IN IF first.ok THEN first ELSE JsonParse(FALSE, text.json)

\* obj.f for a parsed document: undefined when obj has no such property
Field(obj, f) ==
    IF obj.t = "object" /\ f \in DOMAIN obj THEN obj[f] ELSE Undefined

\* reading a property of null or undefined throws a TypeError
Dereferenceable(v) == v.t \notin {"null", "undefined"}

Array(items) == [t |-> "array", items |-> items]
\* what the spread operator iterates over; a number or an object throws
Iterable(v) == v.t \in {"array", "string"}
Spread(v) == IF v.t = "array" THEN v.items ELSE [i \in 1 .. Len(v.s) |-> Str(<<v.s[i]>>)]

\* a value interpolated into a template string
Text(v) == IF v.t = "string" THEN v.s ELSE <<v.t>>

-----------------------------------------------------------------------------
(* Tier 3: CtnAiService.ctnAnalyzeContentBasedBias, the keyword heuristic.    *)
(* A text is a sequence of words; each word is matched against the three     *)
(* keyword lists.                                                            *)

ToLowerCase(w) ==
    CASE w = "Progressive" -> "progressive"
      [] w = "Unknown Source" -> "unknown source"
      [] w = "Untitled Article" -> "untitled article"
      [] w = "No content available" -> "no content available"
      [] OTHER -> w

\* how many keywords of each list match inside one (lower-case) word:
\* 'republicans' holds both 'republican' and 'republicans'
liberalKeywords(w) == IF w = "progressive" THEN 1 ELSE 0
conservativeKeywords(w) == IF w = "republicans" THEN 2 ELSE IF w = "crime" THEN 1 ELSE 0
neutralKeywords(w) == IF w = "bipartisan" THEN 1 ELSE 0

\* the keywords of one list that match inside the word w
KeywordCount(list, w) ==
    CASE list = "liberal" -> liberalKeywords(w)
      [] list = "conservative" -> conservativeKeywords(w)
      [] list = "neutral" -> neutralKeywords(w)

\* the matches of one list's keywords in a text
Matches(text, list) ==
    LET F[i \in 0 .. Len(text)] ==
            IF i = 0 THEN 0 ELSE F[i - 1] + KeywordCount(list, ToLowerCase(text[i]))
    IN F[Len(text)]

\* the score of one keyword list: title matches count double
KeywordScore(title, content, list) ==
    2 * Matches(title, list) + Matches(content, list)

\* liberalSources with no source on the list
liberalSourcesNone(sourceLower) ==
    FALSE

\* sourceLower.includes(src) for some src of the list
liberalSources(sourceLower) ==
    sourceLower \in {"vox", "huffpost", "cnn"}
conservativeSources(sourceLower) == sourceLower \in {"foxnews", "fox", "breitbart"}

\* a BiasAnalysis; tier 1 sets no sourceReliability (undefined)
BiasResult(score, label, confidence, reasoning, indicators, reliability, method) ==
    [ t |-> "object", biasScore |-> score, biasLabel |-> label,
      confidence |-> confidence, reasoning |-> reasoning,
      keyIndicators |-> indicators, sourceReliability |-> reliability,
      analysisMethod |-> method ]

Tier1Method == Str(<<"CTN AI-powered primary analysis">>)
Tier2Method == Str(<<"CTN AI-powered real-time source and content assessment">>)
Tier3Method == Str(<<"CTN content-based linguistic analysis">>)

Randoms == [a : BOOLEAN, b : BOOLEAN]

\* ctnAnchor with the anchors moved outwards
ctnAnchorOff(rnd) ==
    IF rnd.b THEN 30 ELSE 70

\* Math.random() > 0.5 ? 35 : 65, the anchor of an article without keywords
ctnAnchor(rnd) ==
    IF rnd.b THEN 35 ELSE 65

\* rnd.a and rnd.b are the outcomes of the comparisons on Math.random()
ctnAnalyzeContentBasedBias(title, content, source, rnd) ==
    LET sourceLower == ToLowerCase(source)
        isLib == liberalSources(sourceLower)
        isCon == ~isLib /\ conservativeSources(sourceLower)
        sourceModifier == IF isLib THEN -25 ELSE IF isCon THEN 25 ELSE 0
        \* the verdict on the three scores, each computed once
        verdict(liberalScore, conservativeScore, neutralScore) ==
          LET totalPoliticalScore == liberalScore + conservativeScore
              ratio(side) ==
                  LET r == Frac(side + Abs(sourceModifier), Max(1, totalPoliticalScore + 10))
                  IN IF Less(r, Num(3, 10)) THEN Num(3, 10) ELSE r
              \* 0.6 + dominanceRatio * 0.25, at most 0.85
              conf(r) ==
                  LET c == Frac(60 * r.d + 25 * r.n, 100 * r.d)
                  IN IF Less(Num(85, 100), c) THEN Frac(85, 100) ELSE c
              \* the reasoning text names the three counts and the source
              reasoning ==
                  [ t |-> "string", s |-> <<"Content-based analysis: Detected">>,
                    detected |-> <<liberalScore, conservativeScore, neutralScore>>,
                    from |-> source ]
              res(score, label, confidence) ==
                  BiasResult(MathRound(score), Str(<<label>>), confidence, reasoning,
                             Array(<<Str(<<"content-analysis">>), Str(<<"keyword-detection">>),
                                     Str(<<"linguistic-patterns">>)>>),
                             Str(<<"Unknown">>), Tier3Method)
              start == JsInt(50 + sourceModifier)
          IN IF totalPoliticalScore > 0
             THEN IF liberalScore > conservativeScore \/ sourceModifier < 0
                  THEN LET r == ratio(liberalScore)
                           \* Math.max(15, 50 - dominanceRatio * 35)
                           raw == Frac(50 * r.d - 35 * r.n, r.d)
                           biasScore == IF Less(raw, JsInt(15)) THEN JsInt(15) ELSE raw
                       IN res(biasScore,
                              IF ~Less(JsInt(25), biasScore) THEN "Highly Liberal" ELSE "Liberal",
                              conf(r))
                  ELSE IF conservativeScore > liberalScore \/ sourceModifier > 0
                  THEN LET r == ratio(conservativeScore)
                           \* Math.min(85, 50 + dominanceRatio * 35)
                           raw == Frac(50 * r.d + 35 * r.n, r.d)
                           biasScore == IF Less(JsInt(85), raw) THEN JsInt(85) ELSE raw
                       IN res(biasScore,
                              IF ~Less(biasScore, JsInt(75)) THEN "Highly Conservative"
                              ELSE "Conservative",
                              conf(r))
                  ELSE IF 2 * neutralScore > 3 * totalPoliticalScore /\ totalPoliticalScore < 3
                  THEN res(start, "Neutral/Centrist", Frac(6, 10))
                  ELSE IF rnd.a
                  THEN res(JsInt(35), "Liberal", Frac(6, 10))
                  ELSE res(JsInt(65), "Conservative", Frac(6, 10))
             ELSE IF rnd.a
                  THEN res(JsInt(ctnAnchor(rnd)),
                           IF ctnAnchor(rnd) < 50 THEN "Liberal" ELSE "Conservative",
                           Frac(5, 10))
                  ELSE res(start, "Neutral/Centrist", Frac(5, 10))
    IN CHOOSE result \in
           { verdict(l, c, n) :
               l \in {KeywordScore(title, content, "liberal") + (IF isLib THEN 10 ELSE 0)},
               c \in {KeywordScore(title, content, "conservative")
                          + (IF isCon THEN 10 ELSE 0)},
               n \in {KeywordScore(title, content, "neutral")} } : TRUE

-----------------------------------------------------------------------------
(* Tiers 1 and 2: ctnAnalyzePoliticalBias and ctnGetSourceBasedBiasAnalysis  *)

\* the words of the content that the first 50 base64 characters cover
KeyWords == 1

\* Buffer.from(content).toString('base64').slice(0, 50)
ContentPrefix(content) ==
    SubSeq(content, 1, Min(KeyWords, Len(content)))

\* ctnBiasKey made of the whole content
ctnBiasKeyWhole(content) ==
    <<"ctn_bias", content>>

ctnBiasKey(content) ==
    <<"ctn_bias", ContentPrefix(content)>>
ctnSummaryKey(content) == <<"ctn_summary", ContentPrefix(content)>>

\* source.toLowerCase().replace(/[^a-z0-9]/g, '_')
SourceSlug(source) ==
    LET lower == ToLowerCase(source)
    IN IF lower = "unknown source" THEN "unknown_source" ELSE lower

ctnSourceKey(source) == <<"ctn_source_bias", SourceSlug(source)>>

\* Math.max(lo, Math.min(hi, v))
Clamp(lo, hi, v) == MathMax(lo, MathMin(hi, v))

\* tier 1's "validate and sanitize" of the parsed answer
ctnPrimaryResult(biasAnalysis) ==
    BiasResult(
        Clamp(JsInt(0), JsInt(100), JsOr(Field(biasAnalysis, "biasScore"), JsInt(50))),
        JsOr(Field(biasAnalysis, "biasLabel"), Str(<<"Neutral/Centrist">>)),
        Clamp(JsInt(0), JsInt(1), JsOr(Field(biasAnalysis, "confidence"), Frac(5, 10))),
        JsOr(Field(biasAnalysis, "reasoning"), Str(<<"AI-powered bias analysis completed">>)),
        JsOr(Field(biasAnalysis, "keyIndicators"), Array(<<>>)),
        Undefined,
        Tier1Method)

\* tier 2's combination of the source analysis and the content analysis
ctnCombinedResult(sourceAnalysis, contentAnalysis) ==
    BiasResult(
        Clamp(JsInt(0), JsInt(100),
              JsOr(JsOr(Field(contentAnalysis, "finalBiasScore"),
                        Field(sourceAnalysis, "biasScore")), JsInt(50))),
        JsOr(JsOr(Field(contentAnalysis, "finalBiasLabel"),
                  Field(sourceAnalysis, "biasLabel")), Str(<<"Neutral/Centrist">>)),
        Clamp(JsInt(0), JsInt(1),
              JsOr(JsOr(Field(contentAnalysis, "confidence"),
                        Field(sourceAnalysis, "confidence")), Frac(5, 10))),
        Str(Text(JsOr(Field(sourceAnalysis, "reasoning"), Str(<<"Source analysis completed">>)))
            \o <<". ">>
            \o Text(JsOr(Field(contentAnalysis, "reasoning"),
                         Str(<<"Content analysis completed">>)))),
        Array(Spread(JsOr(Field(sourceAnalysis, "keyIndicators"), Array(<<>>)))
              \o Spread(JsOr(Field(contentAnalysis, "keyIndicators"), Array(<<>>)))),
        JsOr(Field(sourceAnalysis, "sourceReliability"), Str(<<"Medium">>)),
        Tier2Method)

\* the spreads of tier 2's return statement throw on a value that is truthy
\* and not iterable
CombineThrows(sourceAnalysis, contentAnalysis) ==
    \/ ~Iterable(JsOr(Field(sourceAnalysis, "keyIndicators"), Array(<<>>)))
    \/ ~Iterable(JsOr(Field(contentAnalysis, "keyIndicators"), Array(<<>>)))

Jobs == 1 .. 2

\* what an LLM call came to, as its caller sees it: the call failed or its
\* text is no JSON; the text is JSON null; it is a document whose keyIndicators
\* is no list; it is a document
AnswerKind(resp) ==
    IF resp.kind = "error" THEN "failed"
    ELSE IF resp.json = Garbage THEN "failed"
    ELSE IF resp.json = JsNull THEN "null"
    ELSE IF Truthy(Field(resp.json, "keyIndicators"))
            /\ ~Iterable(Field(resp.json, "keyIndicators")) THEN "malformed"
    ELSE "json"

\* job j with the answer to its latest LLM call noted; to an analysis, which
\* reads the fields of the answer, null is as good as no answer
Answered(j, resp) ==
    [j EXCEPT !.answers = Append(@, IF AnswerKind(resp) = "null" THEN "failed"
                                    ELSE AnswerKind(resp))]

\* summary s with the answer to its LLM call noted
SummaryAnswered(s, resp) == [s EXCEPT !.answers = Append(@, AnswerKind(resp))]

IdleJob ==
    [ pc |-> "idle", content |-> <<>>, title |-> <<>>, source |-> "",
      sourceAnalysis |-> Undefined, out |-> Undefined,
      tiers |-> <<>>, failed |-> {}, llm |-> 0, answers |-> <<>>, how |-> "" ]

\* Tier3 with the error thrown on instead of handled: the analysis rejects
Tier3Rethrow(j, rnd) ==
    [j EXCEPT !.pc = "rejected", !.failed = @ \cup {2}, !.how = "rejected"]

\* Tier3 with a retry: the failed tier 2 is entered once more
Tier2Again(j, rnd) ==
    [j EXCEPT !.pc = "tier2source", !.tiers = Append(@, 2), !.failed = @ \cup {2},
              !.llm = @ + 1]

\* tier 2's catch block: tier 3 runs synchronously and its result is returned
Tier3(j, rnd) ==
    [ j EXCEPT !.pc = "done", !.tiers = Append(@, 3), !.failed = @ \cup {2},
               !.out = ctnAnalyzeContentBasedBias(j.title, j.content, j.source, rnd),
               !.how = "tier3" ]

\* job i falls through to tier 3 on the answer resp, whatever Math.random()
\* draws there
FallToTier3(i, resp) ==
    \E rnd \in Randoms : job' = [job EXCEPT ![i] = Tier3(Answered(@, resp), rnd)]

\* ctnGetSourceBasedBiasAnalysis with its two calls issued together, the
\* article-level one without waiting for the source estimate
ctnTier2Parallel(j, cache, t) ==
    [j EXCEPT !.pc = "tier2content", !.tiers = Append(@, 2), !.failed = @ \cup {1},
              !.llm = @ + 2]

\* ctnGetSourceBasedBiasAnalysis up to its first await, entered from tier 1's
\* catch block: the cached source analysis saves the first of the two calls
ctnGetSourceBasedBiasAnalysis(j, cache, t) ==
    LET cachedSourceAnalysis == CacheGet(cache, ctnSourceKey(j.source), t)
        entered == [j EXCEPT !.tiers = Append(@, 2), !.failed = @ \cup {1}, !.llm = @ + 1]
    IN IF Truthy(cachedSourceAnalysis)
       THEN [entered EXCEPT !.pc = "tier2content", !.sourceAnalysis = cachedSourceAnalysis]
       ELSE [entered EXCEPT !.pc = "tier2source"]

\* ctnAnalyzePoliticalBias up to its first await
ctnAnalyzePoliticalBias(content, title, source, cache, t) ==
    LET cached == CacheGet(cache, ctnBiasKey(content), t)
        j == [IdleJob EXCEPT !.content = content, !.title = title, !.source = source,
                             !.tiers = <<1>>]
    IN IF Truthy(cached)
       THEN [j EXCEPT !.pc = "done", !.out = cached, !.how = "cache"]
       ELSE [j EXCEPT !.pc = "tier1", !.llm = 1]

\* the LLM answers tier 1's call
LlmTier1(i, resp) ==
    /\ i \in DOMAIN job
    /\ job[i].pc = "tier1"
    /\ LET parsed == IF resp.kind = "error" THEN Thrown ELSE ctnParseJsonResponse(resp)
       IN IF parsed.ok /\ Dereferenceable(parsed.v)
          THEN LET result == ctnPrimaryResult(parsed.v)
               IN /\ ctnCache' = CacheSet(ctnCache, ctnBiasKey(job[i].content), result,
                                          stdTTL, now)
                  /\ job' = [job EXCEPT ![i] = [Answered(@, resp) EXCEPT
                                        !.pc = "done", !.out = result, !.how = "tier1"]]
          ELSE /\ job' = [job EXCEPT ![i] =
                            ctnGetSourceBasedBiasAnalysis(Answered(@, resp), ctnCache, now)]
               /\ UNCHANGED ctnCache
    /\ UNCHANGED <<now, ticks, call, exaCalls, sum, req, client>>

\* the LLM answers tier 2's source call; the parsed answer is stored for 24
\* hours before it is used
LlmTier2Source(i, resp) ==
    /\ i \in DOMAIN job
    /\ job[i].pc = "tier2source"
    /\ LET parsed == IF resp.kind = "error" THEN Thrown ELSE ctnParseJsonResponse(resp)
       IN IF ~parsed.ok
          THEN /\ FallToTier3(i, resp)
               /\ UNCHANGED ctnCache
          ELSE /\ ctnCache' = CacheSet(ctnCache, ctnSourceKey(job[i].source), parsed.v,
                                       SourceTTL, now)
               /\ IF Dereferenceable(parsed.v)
                  THEN job' = [job EXCEPT ![i] = [Answered(@, resp) EXCEPT
                                          !.pc = "tier2content",
                                          !.sourceAnalysis = parsed.v,
                                          !.llm = @ + 1]]
                  ELSE FallToTier3(i, resp)
    /\ UNCHANGED <<now, ticks, call, exaCalls, sum, req, client>>

\* the LLM answers tier 2's content call
LlmTier2Content(i, resp) ==
    /\ i \in DOMAIN job
    /\ job[i].pc = "tier2content"
    /\ LET parsed == IF resp.kind = "error" THEN Thrown ELSE ctnParseJsonResponse(resp)
       IN IF /\ parsed.ok
             /\ Dereferenceable(parsed.v)
             /\ ~CombineThrows(job[i].sourceAnalysis, parsed.v)
          THEN job' = [job EXCEPT ![i] = [Answered(@, resp) EXCEPT
                                  !.pc = "done", !.how = "tier2",
                                  !.out = ctnCombinedResult(job[i].sourceAnalysis,
                                                            parsed.v)]]
          ELSE FallToTier3(i, resp)
    /\ UNCHANGED <<now, ticks, ctnCache, call, exaCalls, sum, req, client>>

-----------------------------------------------------------------------------
(* Summarisation: CtnAiService.ctnGenerateNeutralSummary                     *)

SummaryFailed ==
    [ t |-> "object",
      summary |-> Str(<<"Summary generation failed. Please try again.">>),
      keyPoints |-> Array(<<Str(<<"Error occurred">>)>>),
      wordCount |-> JsInt(0) ]

IdleSummary ==
    [pc |-> "idle", content |-> <<>>, title |-> <<>>, out |-> Undefined,
     llm |-> 0, answers |-> <<>>, how |-> ""]

\* ctnGenerateNeutralSummary up to its await
ctnGenerateNeutralSummary(content, title, cache, t) ==
    LET cached == CacheGet(cache, ctnSummaryKey(content), t)
        s == [IdleSummary EXCEPT !.content = content, !.title = title]
    IN IF Truthy(cached)
       THEN [s EXCEPT !.pc = "done", !.out = cached, !.how = "cache"]
       ELSE [s EXCEPT !.pc = "waiting", !.llm = 1]

\* ctnSummaryCatch with the error thrown on: the summary rejects
ctnSummaryRethrow(s) == [s EXCEPT !.pc = "rejected", !.how = "rejected"]

\* the catch block of ctnGenerateNeutralSummary
ctnSummaryCatch(s) == [s EXCEPT !.pc = "done", !.out = SummaryFailed, !.how = "failed"]

\* LlmSummary with the placeholder of the catch block stored like a result
LlmSummaryStoring(i, resp) ==
    /\ i \in DOMAIN sum
    /\ sum[i].pc = "waiting"
    /\ LET parsed == IF resp.kind = "error" THEN Thrown ELSE ctnParseJsonResponse(resp)
           out == IF parsed.ok THEN parsed.v ELSE SummaryFailed
       IN /\ ctnCache' = CacheSet(ctnCache, ctnSummaryKey(sum[i].content), out, stdTTL, now)
          /\ sum' = [sum EXCEPT ![i] =
                        IF parsed.ok
                        THEN [SummaryAnswered(@, resp) EXCEPT
                                 !.pc = "done", !.out = parsed.v, !.how = "llm"]
                        ELSE ctnSummaryCatch(SummaryAnswered(@, resp))]
    /\ UNCHANGED <<now, ticks, call, exaCalls, job, req, client>>

\* the LLM answers the summary call
LlmSummary(i, resp) ==
    /\ i \in DOMAIN sum
    /\ sum[i].pc = "waiting"
    /\ LET parsed == IF resp.kind = "error" THEN Thrown ELSE ctnParseJsonResponse(resp)
       IN IF parsed.ok
          THEN /\ ctnCache' = CacheSet(ctnCache, ctnSummaryKey(sum[i].content), parsed.v,
                                       stdTTL, now)
               /\ sum' = [sum EXCEPT ![i] = [SummaryAnswered(@, resp) EXCEPT
                                     !.pc = "done", !.out = parsed.v, !.how = "llm"]]
          ELSE /\ sum' = [sum EXCEPT ![i] = ctnSummaryCatch(SummaryAnswered(@, resp))]
               /\ UNCHANGED ctnCache
    /\ UNCHANGED <<now, ticks, call, exaCalls, job, req, client>>

-----------------------------------------------------------------------------
(* The full-article pipeline and the route GET /api/news/search              *)

\* ctnProcessCompleteArticle with the title put in the place of the content
ctnProcessTitled(article, biasAnalysis, summary, t) ==
    [ title |-> article.title, content |-> article.title, source |-> article.source,
      url |-> article.url, publishedAt |-> article.publishedAt,
      author |-> article.author, imageUrl |-> article.imageUrl,
      bias |-> biasAnalysis, summary |-> summary, processedAt |-> t ]

\* {...article, bias, summary, processedAt}
ctnProcessCompleteArticle(article, biasAnalysis, summary, t) ==
    [ title |-> article.title, content |-> article.content, source |-> article.source,
      url |-> article.url, publishedAt |-> article.publishedAt,
      author |-> article.author, imageUrl |-> article.imageUrl,
      bias |-> biasAnalysis, summary |-> summary, processedAt |-> t ]

IdleRequest ==
    [ pc |-> "idle", query |-> "", limit |-> Undefined, articles |-> <<>>,
      processed |-> <<>>, responses |-> <<>> ]

Response(status, body) == [status |-> status, body |-> body]

\* res.status(400).json({error})
LimitResponse == Response(400, [error |-> "Limit cannot exceed 20 articles"])

\* res.json({articles: [], message, query, total: 0})
EmptyResponse(query) ==
    Response(200, [articles |-> <<>>,
                   message |-> "No articles found for your search query",
                   query |-> query, total |-> 0])

\* SearchResponse with total taken from the provider's hits, not the articles
SearchResponseOfHits(processedArticles, query, t) ==
    Response(200, [articles |-> processedArticles, query |-> query,
                   total |-> call["c1"].log.total, timestamp |-> t])

\* res.json({articles: processedArticles, query, total, timestamp})
SearchResponse(processedArticles, query, t) ==
    Response(200, [articles |-> processedArticles, query |-> query,
                   total |-> Len(processedArticles), timestamp |-> t])

\* res.status(500).json({error, message: error.message})
ErrorResponse(message) ==
    Response(500, [error |-> "Failed to search news articles", message |-> message])

\* const { query = 'latest news', limit = 10 } = req.query
DefaultLimit == 10
MaxLimit == 20

\* LimitExceeded with a digit too many in the threshold
LimitExceededTypo(limit) == JsGreater(limit, 10 * MaxLimit)

\* if (limit > 20)
LimitExceeded(limit) == JsGreater(limit, MaxLimit)

\* the handler up to its first await: the validation of limit, then the call
\* of the retrieval with parseInt(limit)
RouteStart(query, rawLimit) ==
    /\ req.pc = "idle"
    /\ LET limit == IF rawLimit = Undefined THEN JsInt(DefaultLimit) ELSE rawLimit
       IN IF LimitExceeded(limit)
          THEN /\ req' = [req EXCEPT !.pc = "done", !.query = query, !.limit = limit,
                            !.responses = Append(@, LimitResponse)]
               /\ UNCHANGED <<ctnCache, call, exaCalls>>
          ELSE /\ req' = [req EXCEPT !.pc = "searching", !.query = query, !.limit = limit]
               /\ ctnSearchNewsArticles("c1", query, "", ParseInt(limit))
    /\ UNCHANGED <<now, ticks, job, sum, client>>

\* the handler after the retrieval has settled: the catch block's 500, the
\* empty answer, or the start of ctnProcessCompleteArticle for every article
\* (each starts its bias analysis and its summary before the next one starts)
RouteResume ==
    /\ req.pc = "searching"
    /\ call["c1"].pc \in {"resolved", "rejected"}
    /\ IF call["c1"].pc = "rejected"
       THEN /\ req' = [req EXCEPT !.pc = "done",
                          !.responses = Append(@, ErrorResponse(call["c1"].how))]
            /\ UNCHANGED <<job, sum>>
       ELSE LET articles == call["c1"].out.articles
            IN IF Len(articles) = 0
               THEN /\ req' = [req EXCEPT !.pc = "done",
                                  !.responses = Append(@, EmptyResponse(req.query))]
                    /\ UNCHANGED <<job, sum>>
               ELSE /\ req' = [req EXCEPT !.pc = "processing", !.articles = articles,
                                  !.processed = [i \in 1 .. Len(articles) |-> Undefined]]
                    /\ job' = [i \in Jobs |->
                                 IF i <= Len(articles)
                                 THEN ctnAnalyzePoliticalBias(articles[i].content,
                                          articles[i].title, articles[i].source,
                                          ctnCache, now)
                                 ELSE IdleJob]
                    /\ sum' = [i \in Jobs |->
                                 IF i <= Len(articles)
                                 THEN ctnGenerateNeutralSummary(articles[i].content,
                                          articles[i].title, ctnCache, now)
                                 ELSE IdleSummary]
    /\ UNCHANGED <<now, ticks, ctnCache, call, exaCalls, client>>

\* the Promise.all of article i's bias analysis and summary settles: with
\* both results the article is processed; a rejection of either is thrown on
\* by ctnProcessCompleteArticle, rejects the route's Promise.all and ends in
\* the route's catch block
ProcessedArticle(i) ==
    /\ req.pc = "processing"
    /\ i \in 1 .. Len(req.articles)
    /\ req.processed[i] = Undefined
    /\ \/ "rejected" \in {job[i].pc, sum[i].pc}
       \/ job[i].pc = "done" /\ sum[i].pc = "done"
    /\ IF "rejected" \in {job[i].pc, sum[i].pc}
       THEN req' = [req EXCEPT !.pc = "done",
                       !.responses = Append(@, ErrorResponse("rejected"))]
       ELSE req' = [req EXCEPT !.processed[i] =
                       ctnProcessCompleteArticle(req.articles[i], job[i].out,
                                                 sum[i].out, now)]
    /\ UNCHANGED <<now, ticks, ctnCache, call, exaCalls, job, sum, client>>

\* the Promise.all over the articles resolves: res.json({articles, query,
\* total, timestamp})
RouteRespond ==
    /\ req.pc = "processing"
    /\ \A i \in 1 .. Len(req.articles) : req.processed[i] # Undefined
    /\ req' = [req EXCEPT !.pc = "done",
                  !.responses = Append(@, SearchResponse(req.processed, req.query, now))]
    /\ UNCHANGED <<now, ticks, ctnCache, call, exaCalls, job, sum, client>>

-----------------------------------------------------------------------------
(* The browser's helpers (frontend/src/utils/helpers.js)                     *)

\* the value of `timeout` before the first call (undefined): no timer
NoTimer == [id |-> 0, due |-> -1, args |-> ""]

\* the App component before it is mounted: no timer, userId null, isLoading
\* true; mounts counts how often it has been mounted
NoApp == [mounted |-> FALSE, timer |-> NoTimer, userId |-> <<>>, isLoading |-> TRUE,
          mounts |-> 0]

\* the browser before anything happens: the debounced function's wait, its
\* pending timers and the handle `timeout`, the instant in milliseconds, the
\* calls made and the invocations of func; the score and category displayed;
\* the item 'biasguard_user_id' of localStorage (<<>> for none) and the App
IdleClient ==
    [ wait |-> 0, clock |-> 0, timers |-> {}, timeout |-> NoTimer,
      calls |-> <<>>, runs |-> <<>>, score |-> -1, category |-> "",
      storage |-> <<>>, app |-> NoApp ]

\* the category getBiasCategory returns for a score: its label, its short
\* label and its colour
getBiasCategory(biasScore) ==
    IF biasScore < 20
    THEN [label |-> "Highly Liberal", shortLabel |-> "Liberal", color |-> "blue"]
    ELSE IF biasScore < 40
    THEN [label |-> "Liberal", shortLabel |-> "Liberal", color |-> "cyan"]
    ELSE IF biasScore < 60
    THEN [label |-> "Neutral", shortLabel |-> "Center", color |-> "gray"]
    ELSE IF biasScore < 80
    THEN [label |-> "Conservative", shortLabel |-> "Conservative", color |-> "orange"]
    ELSE [label |-> "Highly Conservative", shortLabel |-> "Conservative", color |-> "red"]

\* the bias scale ends at 100
MaxScore == 100

\* BiasIndicator renders a score: const biasCategory = getBiasCategory(biasScore)
BiasIndicator(biasScore) ==
    /\ client' = [client EXCEPT !.score = biasScore,
                                !.category = getBiasCategory(biasScore).label]
    /\ UNCHANGED <<now, ticks, ctnCache, call, exaCalls, job, sum, req>>

\* clearTimeout(handle) without effect: the timer stays pending
ClearNothing(timers, handle) == timers

\* clearTimeout(handle): the timer, if it is still pending, is cancelled
ClearTimeout(timers, handle) == {t \in timers : t # handle}

\* executedFunction(...args), the function debounce returns: the pending
\* timer is cancelled and a new one is set, wait milliseconds from now, that
\* holds the arguments of this call
DebounceCall(args) ==
    /\ Len(client.calls) < MaxCalls
    /\ LET t == [id |-> Len(client.calls) + 1, due |-> client.clock + client.wait,
                 args |-> args]
       IN client' = [client EXCEPT
                        !.timers = ClearTimeout(@, client.timeout) \cup {t},
                        !.timeout = t,
                        !.calls = Append(@, [at |-> client.clock, args |-> args])]
    /\ UNCHANGED <<now, ticks, ctnCache, call, exaCalls, job, sum, req>>

\* a timer is due and `later` runs: clearTimeout(timeout), then func(...args)
\* with the arguments of the call that set the timer
DebounceLater(t) ==
    /\ t \in client.timers
    /\ t.due = client.clock
    /\ client' = [client EXCEPT
                     !.timers = ClearTimeout(@ \ {t}, client.timeout),
                     !.runs = Append(@, [at |-> client.clock, args |-> t.args,
                                         id |-> t.id])]
    /\ UNCHANGED <<now, ticks, ctnCache, call, exaCalls, job, sum, req>>

\* d milliseconds pass in the browser, once the timers that are due have
\* run; the browser is watched for MaxClock such steps
ClientTick(d) ==
    /\ client.clock < MaxClock * d
    /\ \A t \in client.timers : t.due > client.clock
    /\ client' = [client EXCEPT !.clock = @ + d]
    /\ UNCHANGED <<now, ticks, ctnCache, call, exaCalls, job, sum, req>>

\* `user_${Date.now()}_${Math.random().toString(36).substr(2, 9)}`
generateUserId(t, random) == <<"user", t, random>>

\* App is mounted: its state is fresh and the effect sets the timer of
\* initializeUser, 1000 ms from now
AppMount ==
    /\ ~client.app.mounted
    /\ client.app.mounts < MaxCalls
    /\ LET timer == [id |-> client.app.mounts + 1, due |-> client.clock + 1000,
                     args |-> ""]
       IN client' = [client EXCEPT
                        !.timers = @ \cup {timer},
                        !.app = [NoApp EXCEPT !.mounted = TRUE, !.timer = timer,
                                              !.mounts = client.app.mounts + 1]]
    /\ UNCHANGED <<now, ticks, ctnCache, call, exaCalls, job, sum, req>>

\* initializeUser with the stored id ignored: a new id every time
initializeUserAnew(t, random) ==
    /\ t \in client.timers
    /\ t.due = client.clock
    /\ LET storedUserId == generateUserId(client.clock, random)
       IN client' = [client EXCEPT
                        !.timers = @ \ {t},
                        !.storage = storedUserId,
                        !.app.userId = storedUserId,
                        !.app.isLoading = FALSE]
    /\ UNCHANGED <<now, ticks, ctnCache, call, exaCalls, job, sum, req>>

\* the timer is due and initializeUser runs: the stored id, or a new one that
\* is stored, becomes the userId
initializeUser(t, random) ==
    /\ t \in client.timers
    /\ t.due = client.clock
    /\ LET storedUserId == IF client.storage = <<>>
                            THEN generateUserId(client.clock, random)
                            ELSE client.storage
       IN client' = [client EXCEPT
                        !.timers = @ \ {t},
                        !.storage = storedUserId,
                        !.app.userId = storedUserId,
                        !.app.isLoading = FALSE]
    /\ UNCHANGED <<now, ticks, ctnCache, call, exaCalls, job, sum, req>>

\* App is unmounted: the effect's cleanup clears the timer, and the state of
\* the component is gone
AppUnmount ==
    /\ client.app.mounted
    /\ client' = [client EXCEPT
                     !.timers = ClearTimeout(@, client.app.timer),
                     !.app = [NoApp EXCEPT !.mounts = client.app.mounts]]
    /\ UNCHANGED <<now, ticks, ctnCache, call, exaCalls, job, sum, req>>

-----------------------------------------------------------------------------
(* The environment of the retrieval: direct calls of the service, the        *)
(* provider's answers, the clock.                                            *)

Calls == {"c1", "c2"}
Queries == {"climate"}

Hit(url, title, text) ==
    [ url |-> url, title |-> title, text |-> text, summary |-> <<>>,
      publishedDate |-> 0, author |-> "", image |-> "", imageUrl |-> "",
      featuredImage |-> "", thumbnail |-> "" ]

HitVox == Hit(UrlVox, <<"progressive">>, <<"progressive", "news">>)
HitFox == Hit(UrlFox, <<>>, <<"republicans">>)
\* the page of HitVox as another search returns it, under another title
HitVoxLate == Hit(UrlVox, <<"news">>, <<"progressive", "news">>)

\* the result lists a provider search may answer with: nothing, one hit, the
\* same hit twice
ExaAnswers == {<<>>, <<HitVox>>, <<HitFox, HitFox>>}
SearchLimits == {JsInt(1), JsInt(2)}
\* the clock advances in steps of a quarter of an hour
TimeSteps == {900}

InitSearch ==
    /\ now = 0
    /\ ticks = 0
    /\ ctnCache = << >>
    /\ call = [c \in Calls |-> IdleCall]
    /\ exaCalls = [c \in Calls |-> 0]
    /\ job = << >>
    /\ sum = << >>
    /\ req = IdleRequest
    /\ client = IdleClient

\* a caller invokes ctnSearchNewsArticles(query, sources, limit), c1 first and
\* c2 once c1 has settled
CallSearch(c, query, sources, limit) ==
    /\ call[c].pc = "idle"
    /\ \A d \in Calls : call[d].pc # "awaiting"
    /\ c = "c2" => call["c1"].pc # "idle"
    /\ ctnSearchNewsArticles(c, query, sources, limit)
    /\ UNCHANGED <<now, ticks, job, sum, req, client>>

\* time passes; a pending retrieval is at most 10 seconds old and a pending
\* LLM call is answered or fails long before a quarter of an hour is over, so
\* the clock does not advance by a step past either; expired entries leave
\* the cache
Tick(d) ==
    /\ ticks < MaxTicks
    /\ \A c \in Calls : call[c].pc # "awaiting"
    /\ \A i \in DOMAIN job : job[i].pc \in {"idle", "done"}
    /\ \A i \in DOMAIN sum : sum[i].pc \in {"idle", "done"}
    /\ now' = now + d
    /\ ticks' = ticks + 1
    /\ ctnCache' = CachePurge(ctnCache, now')
    /\ UNCHANGED <<call, exaCalls, job, sum, req, client>>

NextSearch ==
    \/ \E c \in Calls, q \in Queries, l \in SearchLimits : CallSearch(c, q, "", l)
    \/ \E c \in Calls, i \in Categories, r \in ExaAnswers :
            ExaFulfil(c, i, TRUE, r)
    \/ \E c \in Calls, i \in Categories : ExaReject(c, i)
    \/ \E c \in Calls : ExaTimeout(c)
    \/ \E d \in TimeSteps : Tick(d)

SpecSearch == InitSearch /\ [][NextSearch]_vars

\* a caller invokes ctnSearchNewsArticles while other calls may be pending
CallAlongside(c, query, sources, limit) ==
    /\ call[c].pc = "idle"
    /\ ctnSearchNewsArticles(c, query, sources, limit)
    /\ UNCHANGED <<now, ticks, job, sum, req, client>>

\* two retrievals that may overlap, their searches answering in any order
NextRace ==
    \/ \E c \in Calls, q \in Queries : CallAlongside(c, q, "", JsInt(2))
    \/ \E c \in Calls, i \in Categories, r \in ExaAnswers : ExaFulfil(c, i, TRUE, r)

SpecRace == InitSearch /\ [][NextRace]_vars

\* one retrieval whose searches may return the same page under two titles
NextMerge ==
    \/ \E q \in Queries, l \in SearchLimits : CallSearch("c1", q, "", l)
    \/ \E i \in Categories, r \in ExaAnswers \cup {<<HitVoxLate, HitFox>>} :
            ExaFulfil("c1", i, TRUE, r)

SpecMerge == InitSearch /\ [][NextMerge]_vars

-----------------------------------------------------------------------------
(* The environment of the analysis: direct calls of ctnAnalyzePoliticalBias  *)
(* and ctnGenerateNeutralSummary, and what the LLM may answer.               *)

Liberal == Str(<<"Liberal">>)
Indicators == Array(<<Str(<<"framing">>)>>)

\* a tier-1 answer (and a source analysis): {biasScore, biasLabel, confidence, ...}
BiasJson(score, label, confidence, reasoning, indicators) ==
    [ t |-> "object", biasScore |-> score, biasLabel |-> label,
      confidence |-> confidence, reasoning |-> reasoning, keyIndicators |-> indicators ]

\* an article-level answer of tier 2: {finalBiasScore, finalBiasLabel, ...}
FinalJson(score, label, confidence, reasoning, indicators) ==
    [ t |-> "object", finalBiasScore |-> score, finalBiasLabel |-> label,
      confidence |-> confidence, reasoning |-> reasoning, keyIndicators |-> indicators ]

EmptyObject == [t |-> "object"]

\* documents the LLM may return where a bias analysis is asked for: as asked,
\* out of range on either side, zero, a fraction, words for numbers, nothing
BiasDocuments ==
    { BiasJson(JsInt(32), Liberal, Frac(78, 100), Str(<<"reasons">>), Indicators),
      BiasJson(JsInt(150), Liberal, Frac(3, 2), Undefined, Undefined),
      BiasJson(JsInt(-5), Undefined, Frac(-1, 5), Undefined, Undefined),
      BiasJson(JsInt(0), Str(<<"Highly Liberal">>), JsInt(0), Undefined, Undefined),
      BiasJson(Frac(65, 2), Liberal, JsInt(1), Undefined, Undefined),
      BiasJson(Str(<<"h", "i", "g", "h">>), Liberal, Str(<<"l", "o", "w">>),
               Undefined, Undefined),
      EmptyObject }

\* documents the LLM may return where a source analysis is asked for
SourceDocuments ==
    { BiasJson(JsInt(25), Liberal, Frac(85, 100), Str(<<"ratings">>), Indicators),
      BiasJson(Str(<<"7", "5", "0">>), Undefined, Str(<<"l", "o", "w">>),
               Undefined, Undefined),
      EmptyObject }

FinalDocuments ==
    { FinalJson(JsInt(70), Str(<<"Conservative">>), Frac(9, 10), Str(<<"reasons">>),
                Indicators),
      FinalJson(JsInt(150), Undefined, Frac(3, 2), Undefined, Undefined),
      FinalJson(Str(<<"h", "i", "g", "h">>), Undefined, Str(<<"l", "o", "w">>),
                Undefined, Undefined),
      FinalJson(Undefined, Undefined, Undefined, Undefined, JsInt(3)),
      EmptyObject }

\* what an LLM call may end in: an error, text that is no JSON, JSON null, a
\* document, plain or inside a markdown fence
LlmAnswers(documents) ==
    {LlmError, LlmText(FALSE, Garbage), LlmText(FALSE, JsNull)}
        \cup {LlmText(FALSE, d) : d \in documents}
        \cup {LlmText(TRUE, d) : d \in {CHOOSE x \in documents : TRUE}}

Story(content, title, source) ==
    [content |-> content, title |-> title, source |-> source]

\* articles handed to the analysis: two that share their first word, one on
\* a liberal and one on a conservative source, one without any keyword, and
\* a second one on the liberal source, which names the other side twelve times
Stories ==
    { Story(<<"progressive", "news">>, <<"Progressive">>, "vox"),
      Story(<<"progressive", "crime", "crime">>, <<"bipartisan">>, "foxnews"),
      Story(<<"news">>, <<"news">>, "Unknown Source"),
      Story([i \in 1 .. 12 |-> "republicans"], <<"news">>, "vox") }

\* the service and the route before anything is asked of them
Init ==
    /\ now = 0
    /\ ticks = 0
    /\ ctnCache = << >>
    /\ call = [c \in Calls |-> IdleCall]
    /\ exaCalls = [c \in Calls |-> 0]
    /\ job = [i \in Jobs |-> IdleJob]
    /\ sum = [i \in Jobs |-> IdleSummary]
    /\ req = IdleRequest
    /\ client = IdleClient

\* a caller invokes ctnAnalyzePoliticalBias(content, title, source), awaiting
\* each analysis before the next
CallBias(i, story) ==
    /\ job[i].pc = "idle"
    /\ i > 1 => job[i - 1].pc = "done"
    /\ job' = [job EXCEPT ![i] = ctnAnalyzePoliticalBias(story.content, story.title,
                                                         story.source, ctnCache, now)]
    /\ UNCHANGED <<now, ticks, ctnCache, call, exaCalls, sum, req, client>>

NextBias ==
    \/ \E i \in Jobs, story \in Stories : CallBias(i, story)
    \/ \E i \in Jobs, resp \in LlmAnswers(BiasDocuments) : LlmTier1(i, resp)
    \/ \E i \in Jobs, resp \in LlmAnswers(SourceDocuments) : LlmTier2Source(i, resp)
    \/ \E i \in Jobs, resp \in LlmAnswers(FinalDocuments) : LlmTier2Content(i, resp)
    \/ \E d \in TimeSteps : Tick(d)

SpecBias == Init /\ [][NextBias]_vars

SummaryJson(summary, points, count) ==
    [t |-> "object", summary |-> summary, keyPoints |-> points, wordCount |-> count]

SummaryDocuments ==
    { SummaryJson(Str(<<"a neutral summary">>), Array(<<Str(<<"point">>)>>), JsInt(3)),
      SummaryJson(Undefined, Undefined, Undefined),
      EmptyObject }

\* a caller invokes ctnGenerateNeutralSummary(content, title)
CallSummary(i, story) ==
    /\ sum[i].pc = "idle"
    /\ i > 1 => sum[i - 1].pc = "done"
    /\ sum' = [sum EXCEPT ![i] = ctnGenerateNeutralSummary(story.content, story.title,
                                                           ctnCache, now)]
    /\ UNCHANGED <<now, ticks, ctnCache, call, exaCalls, job, req, client>>

NextSummary ==
    \/ \E i \in Jobs, story \in Stories : CallSummary(i, story)
    \/ \E i \in Jobs, resp \in LlmAnswers(SummaryDocuments) : LlmSummary(i, resp)
    \/ \E d \in TimeSteps : Tick(d)

SpecSummary == Init /\ [][NextSummary]_vars

-----------------------------------------------------------------------------
(* The route's environment: one request with any raw ?limit=, the provider's *)
(* and the LLM's answers.                                                    *)

LimitChars == {"-", "0", "1", "3", "a"}

\* the raw limit of a request: absent, or a string of at most MaxLen characters
RawLimits ==
    {Undefined} \cup {Str(s) : s \in UNION {[1 .. n -> LimitChars] : n \in 0 .. MaxLen}}

RouteExaAnswers == {<<HitVox>>, <<HitFox, HitVox>>}

RouteBiasAnswers ==
    { LlmError, LlmText(FALSE, Garbage),
      LlmText(FALSE, BiasJson(JsInt(32), Liberal, Frac(78, 100), Str(<<"reasons">>),
                              Indicators)) }

RouteFinalAnswers ==
    { LlmError, LlmText(FALSE, Garbage),
      LlmText(FALSE, FinalJson(JsInt(70), Str(<<"Conservative">>), Frac(9, 10),
                               Str(<<"reasons">>), Indicators)) }

RouteSummaryAnswers ==
    { LlmError, LlmText(TRUE, Garbage),
      LlmText(TRUE, SummaryJson(Str(<<"a neutral summary">>), Array(<<Str(<<"point">>)>>),
                                JsInt(3))) }

\* what follows the start of the handler: the provider's and the LLM's
\* answers, the timer, the handler's continuations
Serve ==
    \/ \E i \in Categories, r \in RouteExaAnswers : ExaFulfil("c1", i, TRUE, r)
    \/ \E i \in Categories : ExaFulfil("c1", i, FALSE, <<>>)
    \/ \E i \in Categories : ExaReject("c1", i)
    \/ ExaTimeout("c1")
    \/ RouteResume
    \/ \E i \in Jobs, resp \in RouteBiasAnswers : LlmTier1(i, resp)
    \/ \E i \in Jobs, resp \in RouteBiasAnswers : LlmTier2Source(i, resp)
    \/ \E i \in Jobs, resp \in RouteFinalAnswers : LlmTier2Content(i, resp)
    \/ \E i \in Jobs, resp \in RouteSummaryAnswers : LlmSummary(i, resp)
    \/ \E i \in Jobs : ProcessedArticle(i)
    \/ RouteRespond

Next ==
    \/ \E q \in Queries, l \in RawLimits : RouteStart(q, l)
    \/ Serve

Spec == Init /\ [][Next]_vars

\* the steps that are bound to happen once they can: the 10 second timer fires,
\* the handler resumes after an await, and (the proviso under which the route
\* is looked at) a pending LLM call is answered or fails; the provider's
\* searches are not among them
Settling ==
    \/ ExaTimeout("c1")
    \/ RouteResume
    \/ \E i \in Jobs, resp \in RouteBiasAnswers : LlmTier1(i, resp)
    \/ \E i \in Jobs, resp \in RouteBiasAnswers : LlmTier2Source(i, resp)
    \/ \E i \in Jobs, resp \in RouteFinalAnswers : LlmTier2Content(i, resp)
    \/ \E i \in Jobs, resp \in RouteSummaryAnswers : LlmSummary(i, resp)
    \/ \E i \in Jobs : ProcessedArticle(i)
    \/ RouteRespond

\* the requests whose progress is followed: one without a limit (10 by
\* default), one with a limit that is refused
NextLive ==
    \/ \E q \in Queries, l \in {Undefined, Str(<<"3", "1">>)} : RouteStart(q, l)
    \/ Serve

FairSpec == Init /\ [][NextLive]_vars /\ WF_vars(Settling)

\* a caller invokes ctnProcessCompleteArticle(article), at any moment: the
\* bias analysis and the summary of the article start together, whether or
\* not those of an earlier article are still pending
CallProcess(i, story) ==
    /\ job[i].pc = "idle"
    /\ sum[i].pc = "idle"
    /\ i > 1 => job[i - 1].pc # "idle"
    /\ job' = [job EXCEPT ![i] = ctnAnalyzePoliticalBias(story.content, story.title,
                                                         story.source, ctnCache, now)]
    /\ sum' = [sum EXCEPT ![i] = ctnGenerateNeutralSummary(story.content, story.title,
                                                           ctnCache, now)]
    /\ UNCHANGED <<now, ticks, ctnCache, call, exaCalls, req, client>>

\* articles processed in a batch: articles of listed sources, with the answers
\* of the LLM that the route is looked at with
NextBatch ==
    \/ \E i \in Jobs, story \in {s \in Stories : s.source # "Unknown Source"} :
            CallProcess(i, story)
    \/ \E i \in Jobs, resp \in RouteBiasAnswers : LlmTier1(i, resp)
    \/ \E i \in Jobs, resp \in RouteBiasAnswers : LlmTier2Source(i, resp)
    \/ \E i \in Jobs, resp \in RouteFinalAnswers : LlmTier2Content(i, resp)
    \/ \E i \in Jobs, resp \in RouteSummaryAnswers : LlmSummary(i, resp)
    \/ \E d \in TimeSteps : Tick(d)

SpecBatch == Init /\ [][NextBatch]_vars

\* articles for the heuristic: with keywords of one side, of both sides evenly
\* (alone or among neutral ones), of one side ten times (as many as the boost
\* of a listed source) or twelve times, or none; under a title with or without
\* neutral keywords; from a source of either list or of neither
Tier3Stories ==
    { Story(content, title, source) :
        content \in { <<"news">>, <<"progressive">>, <<"crime">>,
                      <<"progressive", "crime">>, <<"crime", "progressive">>,
                      <<"progressive", "crime", "bipartisan", "bipartisan">>,
                      <<"crime", "progressive", "bipartisan", "bipartisan">>,
                      [i \in 1 .. 10 |-> "progressive"], [i \in 1 .. 10 |-> "crime"],
                      [i \in 1 .. 12 |-> "progressive"], [i \in 1 .. 12 |-> "crime"] },
        title \in {<<"news">>, <<"bipartisan">>},
        source \in {"vox", "foxnews", "Unknown Source"} }

\* analyses, one after the other, for which every call of the LLM fails
NextTier3 ==
    \/ \E i \in Jobs, story \in Tier3Stories : CallBias(i, story)
    \/ \E i \in Jobs : LlmTier1(i, LlmError)
    \/ \E i \in Jobs : LlmTier2Source(i, LlmError)

SpecTier3 == Init /\ [][NextTier3]_vars

-----------------------------------------------------------------------------
(* The environment of the browser's helpers: a function debounced with some  *)
(* wait is called with some arguments at some instants.                      *)

InitDebounce ==
    /\ now = 0
    /\ ticks = 0
    /\ ctnCache = << >>
    /\ call = [c \in Calls |-> IdleCall]
    /\ exaCalls = [c \in Calls |-> 0]
    /\ job = << >>
    /\ sum = << >>
    /\ req = IdleRequest
    /\ \E w \in {2, 3} : client = [IdleClient EXCEPT !.wait = w]

NextDebounce ==
    \/ \E args \in {"a", "b"} : DebounceCall(args)
    \/ \E t \in client.timers : DebounceLater(t)
    \/ ClientTick(1)

SpecDebounce == InitDebounce /\ [][NextDebounce]_vars

\* an indicator is rendered for every integer of the scale
NextCategory == \E biasScore \in 0 .. MaxScore : BiasIndicator(biasScore)

SpecCategory == InitSearch /\ [][NextCategory]_vars

\* a browser that has no id stored, or the id of an earlier visit
InitApp ==
    /\ now = 0
    /\ ticks = 0
    /\ ctnCache = << >>
    /\ call = [c \in Calls |-> IdleCall]
    /\ exaCalls = [c \in Calls |-> 0]
    /\ job = << >>
    /\ sum = << >>
    /\ req = IdleRequest
    /\ \E id \in {<<>>, generateUserId(0, 1)} : client = [IdleClient EXCEPT !.storage = id]

\* the App is mounted and unmounted at any instants, half a second apart
NextApp ==
    \/ AppMount
    \/ \E t \in client.timers, random \in 1 .. 2 : initializeUser(t, random)
    \/ AppUnmount
    \/ ClientTick(500)

SpecApp == InitApp /\ [][NextApp]_vars

-----------------------------------------------------------------------------
(* The properties.                                                           *)

\* the limit of the request is an integer literal: Number(limit) and
\* parseInt(limit) are the same number (the default 10 included)
IntegerLimit ==
    /\ req.limit # Undefined
    /\ ToNumber(req.limit).t = "number"
    /\ ParseInt(req.limit) = ToNumber(req.limit)

\* no two articles of the list have the same url
NoDuplicateUrl(articles) ==
    \A i, j \in 1 .. Len(articles) : i # j => articles[i].url # articles[j].url

\* v is a number within lo .. hi
InRange(v, lo, hi) == v.t = "number" /\ lo * v.d <= v.n /\ v.n <= hi * v.d

\* C1: when a provider search rejects or the 10-second timeout fires, the
\* retrieval resolves with exactly the five fixed synthetic articles, and the
\* search endpoint answers 200 with five articles, never an error status.
C1_FallbackOnProviderFailure ==
    call["c1"].cause \in {"provider", "timeout"} =>
        /\ call["c1"].pc = "resolved"
        /\ call["c1"].out = NewsData(ctnFallbackArticles(now))
        /\ req.pc = "done" =>
              /\ Len(req.responses) = 1
              /\ req.responses[1].status = 200
              /\ Len(req.responses[1].body.articles) = 5

\* C2: a request whose limit is greater than 20 is answered with status 400,
\* and no provider search and no LLM call is issued and the cache is left as
\* it was (empty).
C2_LimitOver20Rejected ==
    LET x == ToNumber(req.limit)
    IN (req.pc # "idle" /\ x.t = "number" /\ x.n > 20 * x.d) =>
          /\ req.pc = "done"
          /\ Len(req.responses) = 1
          /\ req.responses[1].status = 400
          /\ call["c1"].pc = "idle"
          /\ exaCalls["c1"] = 0
          /\ \A i \in Jobs : job[i].llm = 0 /\ sum[i].llm = 0
          /\ DOMAIN ctnCache = {}

\* a request with limit=31 has been answered 400
C2_Witness ==
    /\ req.pc = "done"
    /\ req.limit = Str(<<"3", "1">>)
    /\ req.responses = <<LimitResponse>>

\* C3: every BiasAnalysis that ctnAnalyzePoliticalBias returns, from whichever
\* tier or from the cache and whatever the LLM answered, has
\* 0 <= biasScore <= 100 and 0 <= confidence <= 1.
C3_ScoreAndConfidenceInRange ==
    \A i \in DOMAIN job :
        job[i].pc = "done" =>
            /\ InRange(job[i].out.biasScore, 0, 100)
            /\ InRange(job[i].out.confidence, 0, 1)

\* C4: the article list of a successful search holds no two articles with
\* the same url, whatever the four provider searches returned, and so does a
\* list served from the cache.
C4_NoDuplicateUrls ==
    \A c \in Calls :
        call[c].pc = "resolved" => NoDuplicateUrl(call[c].out.articles)

\* the first call merged the same url more than once and kept two articles,
\* and the second call was served them from the cache
C4_Witness ==
    /\ call["c1"].how = "search"
    /\ call["c1"].log.total > call["c1"].log.unique
    /\ Len(call["c1"].out.articles) = 2
    /\ call["c2"].how = "cache"
    /\ Len(call["c2"].out.articles) = 2

\* C5: of two search calls with identical (query, sources, limit) made within
\* the 1800-second TTL, the second triggers no provider search and returns
\* what the first returned.  (The first call has settled at the instant it
\* was made: the clock does not advance while a call is pending.)
C5_IdenticalCallsShareResult ==
    LET first == call["c1"]
        second == call["c2"]
    IN (/\ second.pc # "idle"
        /\ second.query = first.query
        /\ second.sources = first.sources
        /\ second.limit = first.limit
        /\ second.at - first.at <= stdTTL) =>
          /\ exaCalls["c2"] = 0
          /\ second.pc = "resolved"
          /\ first.pc = "resolved"
          /\ second.out = first.out

\* C6: when the LLM has failed at tier 1 and at tier 2 (a call error or an
\* answer that cannot be read), ctnAnalyzePoliticalBias does not reject: the
\* keyword heuristic has returned a BiasAnalysis with biasScore, biasLabel,
\* confidence, reasoning, keyIndicators and analysisMethod all present.
C6_HeuristicAfterLlmFailure ==
    \A i \in DOMAIN job :
        (/\ Len(job[i].answers) >= 2
         /\ job[i].answers[1] = "failed"
         /\ job[i].answers[Len(job[i].answers)] = "failed") =>
            /\ job[i].pc = "done"
            /\ job[i].out.t = "object"
            /\ job[i].out.biasScore.t = "number"
            /\ job[i].out.biasLabel.t = "string"
            /\ job[i].out.confidence.t = "number"
            /\ job[i].out.reasoning.t = "string"
            /\ job[i].out.keyIndicators.t = "array"
            /\ job[i].out.analysisMethod = Tier3Method

\* an analysis whose tier-1 call and whose tier-2 source call both failed has
\* ended with the heuristic's result
C6_Witness ==
    \E i \in DOMAIN job :
        /\ job[i].answers = <<"failed", "failed">>
        /\ job[i].pc = "done"
        /\ job[i].out.analysisMethod = Tier3Method

\* C7 as stated: for every integer limit the route accepts (any limit not
\* greater than 20), a successful retrieval returns at most limit articles.
C7_AtMostLimitArticles ==
    (/\ call["c1"].pc = "resolved"
     /\ IntegerLimit
     /\ ToNumber(req.limit).n <= 20) =>
        Len(call["c1"].out.articles) <= ToNumber(req.limit).n

\* C7, amended: for every integer limit from 0 to 20, a successful retrieval
\* returns at most limit articles.
C7_AtMostLimitArticlesFromZero ==
    (/\ call["c1"].pc = "resolved"
     /\ IntegerLimit
     /\ ToNumber(req.limit).n \in 0 .. 20) =>
        Len(call["c1"].out.articles) <= ToNumber(req.limit).n

\* a request with limit=1 whose searches found two different urls got one
\* article
C7_Witness ==
    /\ req.limit = Str(<<"1">>)
    /\ call["c1"].how = "search"
    /\ call["c1"].log.unique = 2
    /\ Len(call["c1"].out.articles) = 1

C9_PlaceholderOnLlmFailure ==
    \A i \in DOMAIN sum :
        /\ sum[i].pc \in {"idle", "waiting", "done"}
        /\ (sum[i].answers # <<>> /\ sum[i].answers[1] = "failed") =>
              /\ sum[i].pc = "done"
              /\ sum[i].out.summary = Str(<<"Summary generation failed. Please try again.">>)
              /\ sum[i].out.keyPoints = Array(<<Str(<<"Error occurred">>)>>)
              /\ sum[i].out.wordCount = JsInt(0)
              /\ DOMAIN sum[i].out = {"t", "summary", "keyPoints", "wordCount"}

\* a summary whose LLM call failed has resolved
C9_Witness ==
    \E i \in DOMAIN sum :
        /\ sum[i].answers = <<"failed">>
        /\ sum[i].pc = "done"
        /\ sum[i].how = "failed"

\* C10: a request gets at most one response, and exactly one once the handler
\* has ended; the response is 400 exactly when limit > 20; or 200 with
\* {articles: [], message, query, total: 0} exactly when the retrieval yielded
\* no article; or 200 with {articles, query, total, timestamp}, total the
\* number of processed articles and one processed article per retrieved one;
\* or 500 with {error, message} exactly when the retrieval rejected.
C10_OneResponseOfFourShapes ==
    LET x == ToNumber(req.limit)
        over == x.t = "number" /\ x.n > 20 * x.d
        r == req.responses[1]
        retrieved == call["c1"].out.articles
    IN /\ Len(req.responses) = (IF req.pc = "done" THEN 1 ELSE 0)
       /\ req.pc = "done" =>
            /\ r.status \in {200, 400, 500}
            /\ r.status = 400 <=> over
            /\ r.status = 400 => DOMAIN r.body = {"error"}
            /\ r.status = 500 <=> (~over /\ call["c1"].pc = "rejected")
            /\ r.status = 500 => DOMAIN r.body = {"error", "message"}
            /\ r.status = 200 =>
                 /\ call["c1"].pc = "resolved"
                 /\ IF retrieved = <<>>
                    THEN r.body = [articles |-> <<>>,
                                   message |-> "No articles found for your search query",
                                   query |-> req.query, total |-> 0]
                    ELSE /\ DOMAIN r.body = {"articles", "query", "total", "timestamp"}
                         /\ r.body.query = req.query
                         /\ r.body.total = Len(r.body.articles)
                         /\ Len(r.body.articles) = Len(retrieved)
                         /\ \A i \in 1 .. Len(retrieved) :
                               /\ r.body.articles[i].url = retrieved[i].url
                               /\ r.body.articles[i].bias = job[i].out
                               /\ r.body.articles[i].summary = sum[i].out

\* C10's case: a request has been answered 200 with two processed articles
C10_Witness ==
    /\ req.pc = "done"
    /\ req.responses[1].status = 200
    /\ req.responses[1].body.total = 2
    /\ Len(req.responses[1].body.articles) = 2

\* C11: no failure of the LLM provider (a rejected call, or text that cannot
\* be parsed), at any bias tier or in the summary, for any of the articles,
\* reaches the response: a request whose retrieval found articles is answered
\* 200, and an article whose tier-1 call failed carries the BiasAnalysis of a
\* later tier, an article whose summary call failed the placeholder summary.
C11_LlmFailureAbsorbed ==
    LET retrieved == call["c1"].out.articles
        r == req.responses[1]
    IN (req.pc = "done" /\ call["c1"].pc = "resolved" /\ retrieved # <<>>) =>
          /\ r.status = 200
          /\ \A i \in 1 .. Len(retrieved) :
                /\ (job[i].answers # <<>> /\ job[i].answers[1] = "failed") =>
                      /\ r.body.articles[i].bias.t = "object"
                      /\ r.body.articles[i].bias.analysisMethod
                            = (IF Len(job[i].answers) >= 2
                                  /\ job[i].answers[Len(job[i].answers)] = "failed"
                               THEN Tier3Method ELSE Tier2Method)
                      /\ r.body.articles[i].bias.biasLabel.t = "string"
                /\ (sum[i].answers # <<>> /\ sum[i].answers[1] = "failed") =>
                      r.body.articles[i].summary = SummaryFailed

\* a request answered 200 with two articles: for the first every LLM call
\* failed, for the second none
C11_Witness ==
    /\ req.pc = "done"
    /\ req.responses[1].status = 200
    /\ Len(req.responses[1].body.articles) = 2
    /\ job[1].answers = <<"failed", "failed">>
    /\ sum[1].answers = <<"failed">>
    /\ job[2].answers = <<"json">>
    /\ sum[2].answers = <<"json">>
    /\ req.responses[1].body.articles[1].summary = SummaryFailed
    /\ req.responses[1].body.articles[2].bias.analysisMethod = Tier1Method

\* the label of the 5-bucket rubric for a score: 0-20, 21-40, 41-60, 61-80,
\* 81-100
RubricLabel(v) ==
    IF v.t # "number" THEN Undefined
    ELSE IF v.n <= 20 * v.d THEN Str(<<"Highly Liberal">>)
    ELSE IF v.n <= 40 * v.d THEN Str(<<"Liberal">>)
    ELSE IF v.n <= 60 * v.d THEN Str(<<"Neutral/Centrist">>)
    ELSE IF v.n <= 80 * v.d THEN Str(<<"Conservative">>)
    ELSE Str(<<"Highly Conservative">>)

\* C12: in every BiasAnalysis the pipeline returns, biasLabel is the label
\* the 5-bucket rubric assigns to its biasScore.
C12_LabelMatchesScore ==
    \A i \in DOMAIN job :
        job[i].pc = "done" => job[i].out.biasLabel = RubricLabel(job[i].out.biasScore)

\* C13: the biasScore of every analysis that becomes a processed article's
\* bias is an integer, whichever tier produced it and whatever number the LLM
\* returned as the score.
C13_ScoreIsInteger ==
    \A i \in DOMAIN job :
        (job[i].pc = "done" /\ job[i].out.biasScore.t = "number") =>
            job[i].out.biasScore.d = 1

\* C14: the debounced function runs func only for a call that no other call
\* follows within wait milliseconds, once, wait milliseconds after that call
\* and with its arguments; so a burst of calls each less than wait apart leads
\* to one invocation, wait after the last call of the burst, with the last
\* call's arguments.  (A call that another follows after exactly wait
\* milliseconds runs or not, as the timer or the call comes first.)
C14_DebounceRunsLastCall ==
    LET calls == client.calls
        runs == client.runs
        \* the milliseconds from call k to the next call; none is wait + 1
        gap(k) == IF k < Len(calls) THEN calls[k + 1].at - calls[k].at
                  ELSE IF client.clock > calls[k].at + client.wait THEN client.wait + 1
                  ELSE client.wait
        ran(k) == {n \in 1 .. Len(runs) : runs[n].id = k}
    IN /\ \A n \in 1 .. Len(runs) :
             /\ runs[n].id \in 1 .. Len(calls)
             /\ runs[n].at = calls[runs[n].id].at + client.wait
             /\ runs[n].args = calls[runs[n].id].args
       /\ \A k \in 1 .. Len(calls) :
             /\ Cardinality(ran(k)) <= 1
             /\ gap(k) < client.wait => ran(k) = {}
             /\ gap(k) > client.wait => Cardinality(ran(k)) = 1

\* a burst of three calls one millisecond apart, wait 2: func has run once,
\* two milliseconds after the last call, with the last call's arguments
C14_Witness ==
    /\ client.wait = 2
    /\ client.calls = <<[at |-> 0, args |-> "a"], [at |-> 1, args |-> "b"],
                        [at |-> 2, args |-> "a"]>>
    /\ client.runs = <<[at |-> 4, args |-> "a", id |-> 3]>>
    /\ client.clock = 5

\* the category of the scale shown in the bias legend: 0-20, 21-40, 41-60,
\* 61-80, 81-100
LegendCategory(score) ==
    IF score <= 20 THEN "Highly Liberal"
    ELSE IF score <= 40 THEN "Liberal"
    ELSE IF score <= 60 THEN "Neutral"
    ELSE IF score <= 80 THEN "Conservative"
    ELSE "Highly Conservative"

\* C15: getBiasCategory maps every integer score 0..100 to the category the
\* bias legend documents for it, at the boundaries 20, 40, 60 and 80 too.
C15_CategoryMatchesLegend ==
    client.score \in 0 .. 100 => client.category = LegendCategory(client.score)

\* C16: after a failed retrieval the five fallback articles are in the cache
\* under the key of (query, sources, limit) for the TTL, and a second
\* identical call within the TTL is served from the cache without a provider
\* search.
C16_FallbackCached ==
    LET first == call["c1"]
        second == call["c2"]
        k == ctnNewsKey(first.query, first.sources, first.limit)
    IN (first.cause \in {"provider", "timeout"} /\ now - first.at <= stdTTL) =>
          /\ CacheGet(ctnCache, k, now) = NewsData(ctnFallbackArticles(first.at))
          /\ (second.pc # "idle" /\ second.limit = first.limit) =>
                /\ second.how = "cache"
                /\ exaCalls["c2"] = 0

\* C17: the retrieval always settles, by the 10-second timeout at the latest,
\* even if provider searches never complete; and the endpoint eventually
\* responds, provided every LLM call it makes eventually settles.
C17_RetrievalSettlesAndRouteResponds ==
    /\ (call["c1"].pc = "awaiting") ~> (call["c1"].pc \in {"resolved", "rejected"})
    /\ (req.pc \in {"searching", "processing"}) ~> (req.pc = "done")

\* a retrieval whose searches had not all answered was settled by the timeout
\* and the request was answered
C17_Witness ==
    /\ call["c1"].pc = "rejected"
    /\ call["c1"].cause = "timeout"
    /\ exaCalls["c1"] = 4
    /\ req.pc = "done"
    /\ Len(req.responses) = 1

\* C18: once job i has a source estimate (parsed from the source call, or
\* found in the cache), then for 24 hours the estimate stays in the cache,
\* with an expiry of 86400 s, and a later tier-2 run k for the same source
\* makes no source call: it goes straight to its single article-level call,
\* so that it issues two LLM calls in all (tier 1's and that one); the
\* estimate stays cached when the article-level call has failed.
C18_SourceEstimateReused ==
    \A i, k \in Jobs :
        (i < k /\ job[i].sourceAnalysis # Undefined /\ now <= SourceTTL) =>
            LET key == ctnSourceKey(job[i].source)
            IN /\ CacheGet(ctnCache, key, now) = job[i].sourceAnalysis
               /\ ctnCache[key].t >= SourceTTL
               /\ (ctnSourceKey(job[k].source) = key /\ Len(job[k].tiers) >= 2) =>
                     /\ job[k].pc # "tier2source"
                     /\ job[k].sourceAnalysis = job[i].sourceAnalysis
                     /\ job[k].llm <= 2
                     /\ Len(job[k].answers) <= 2

\* the first analysis obtained the estimate from the LLM; the second, of the
\* same source and later than the default TTL, made the article-level call
\* only, which failed
C18_Witness ==
    /\ job[1].pc = "done"
    /\ Len(job[1].tiers) >= 2
    /\ job[1].tiers[2] = 2
    /\ job[1].answers[2] = "json"
    /\ job[1].sourceAnalysis # Undefined
    /\ now > stdTTL
    /\ job[2].source = job[1].source
    /\ job[2].tiers = <<1, 2, 3>>
    /\ job[2].answers = <<"failed", "failed">>
    /\ job[2].llm = 2
    /\ job[2].pc = "done"

\* C19: an analysis has at most one LLM call pending at a time and issues
\* at most three; the article-level call of tier 2 is pending only when the
\* source estimate is there; an analysis without an estimate, because the
\* source call failed or its answer did not parse, has issued no call beyond
\* tier 1's and the source call; tier 3 issues none.
C19_CallsSequentialAtMostThree ==
    \A i \in Jobs :
        LET pending == job[i].llm - Len(job[i].answers)
        IN /\ job[i].llm <= 3
           /\ pending = (IF job[i].pc \in {"tier1", "tier2source", "tier2content"}
                         THEN 1 ELSE 0)
           /\ job[i].pc = "tier2content" =>
                 /\ job[i].sourceAnalysis # Undefined
                 /\ Dereferenceable(job[i].sourceAnalysis)
           /\ job[i].llm = 3 => job[i].sourceAnalysis # Undefined
           /\ job[i].sourceAnalysis = Undefined =>
                 /\ job[i].llm <= 2
                 /\ job[i].llm = 2 => job[i].pc = "tier2source" \/ job[i].how = "tier3"

\* an analysis made all three calls, another stopped after a failed source call
C19_Witness ==
    /\ job[1].llm = 3
    /\ job[1].how = "tier2"
    /\ Len(job[1].answers) = 3
    /\ job[2].llm = 2
    /\ job[2].source # job[1].source
    /\ job[2].answers = <<"failed", "failed">>
    /\ job[2].sourceAnalysis = Undefined
    /\ job[2].how = "tier3"

\* job i was decided by tier 3 on an article without any liberal or
\* conservative keyword, from a source of neither list
NoKeywordsNoSource(i) ==
    /\ job[i].how = "tier3"
    /\ KeywordScore(job[i].title, job[i].content, "liberal") = 0
    /\ KeywordScore(job[i].title, job[i].content, "conservative") = 0
    /\ ~liberalSources(ToLowerCase(job[i].source))
    /\ ~conservativeSources(ToLowerCase(job[i].source))

\* the result is the anchor score with its label
AnchorResult(out, score, label) ==
    /\ out.biasScore = JsInt(score)
    /\ out.biasLabel = Str(<<label>>)
    /\ out.confidence = Frac(5, 10)

\* C20: in tier 3, an article without liberal or conservative keywords from
\* a source of neither list gets one of the two anchors, 35 (Liberal) or 65
\* (Conservative).
C20_AnchorWithoutKeywords ==
    \A i \in Jobs :
        NoKeywordsNoSource(i) =>
            \/ AnchorResult(job[i].out, 35, "Liberal")
            \/ AnchorResult(job[i].out, 65, "Conservative")

\* C20, amended: such an article gets 50 (Neutral/Centrist) or one of the two
\* anchors, 35 (Liberal) or 65 (Conservative), with confidence 0.5.
C20_AnchorOrNeutralWithoutKeywords ==
    \A i \in Jobs :
        NoKeywordsNoSource(i) =>
            \/ AnchorResult(job[i].out, 35, "Liberal")
            \/ AnchorResult(job[i].out, 65, "Conservative")
            \/ AnchorResult(job[i].out, 50, "Neutral/Centrist")

\* one such article got an anchor, another stayed neutral
C20_Witness ==
    /\ NoKeywordsNoSource(1)
    /\ NoKeywordsNoSource(2)
    /\ job[1].out.biasScore \in {JsInt(35), JsInt(65)}
    /\ AnchorResult(job[2].out, 50, "Neutral/Centrist")

\* C21: every article returned by a successful retrieval is the first hit of
\* its URL in the order liberal, conservative, center, mixed (and within a
\* result set by position), and the articles are in the order of those first
\* hits.
C21_FirstSeenWins ==
    \A c \in Calls : call[c].how = "search" => call[c].log.firstSeen

\* five hits of two pages came back, the page of vox.com under two titles
\* (five hits with HitVoxLate among them leave room for HitVox only); it
\* stands first, under the title of the hit that came first in the merge
C21_Witness ==
    /\ call["c1"].how = "search"
    /\ call["c1"].log.total = 5
    /\ call["c1"].log.unique = 2
    /\ Len(call["c1"].out.articles) = 2
    /\ call["c1"].out.articles[1].title = HitVoxLate.title
    /\ call["c1"].out.articles[2].url = UrlFox

\* C22: when ctnProcessCompleteArticle returns for article i, the record it
\* returns has the fields of the article with their values, and bias, summary
\* and processedAt besides, nothing else; the step writes nothing to the
\* cache; and the route's answer for a rejected article is given only when the
\* bias analysis or the summary of an article has rejected.
C22_ArticleFieldsKept ==
    [][ /\ \A i \in DOMAIN req.processed \cap DOMAIN req'.processed :
              (req.processed[i] = Undefined /\ req'.processed[i] # Undefined) =>
                  LET article == req.articles[i]
                      out == req'.processed[i]
                  IN /\ DOMAIN out = DOMAIN article \cup {"bias", "summary", "processedAt"}
                     /\ {"bias", "summary", "processedAt"} \cap DOMAIN article = {}
                     /\ \A f \in DOMAIN article : out[f] = article[f]
                     /\ out.bias = job[i].out
                     /\ out.summary = sum[i].out
                     /\ out.processedAt = now
                     /\ ctnCache' = ctnCache
        /\ (req.pc = "processing" /\ req'.pc = "done"
                /\ req'.responses[Len(req'.responses)] = ErrorResponse("rejected")) =>
              \E i \in DOMAIN job : "rejected" \in {job[i].pc, sum[i].pc}
      ]_vars

\* two articles were processed, the first with a tier-3 bias and a failed
\* summary, and the request was answered with them
C22_Witness ==
    /\ req.pc = "done"
    /\ Len(req.processed) = 2
    /\ req.processed[1].url = UrlFox
    /\ req.processed[1].author = "null"
    /\ req.processed[1].bias.analysisMethod = Tier3Method
    /\ req.processed[1].summary = SummaryFailed
    /\ req.processed[2].content = HitVox.text
    /\ req.responses[1].status = 200

C24_OneSourceCallPerSource ==
    [][ \A i, k \in Jobs :
          (i # k /\ ctnSourceKey(job[i].source) = ctnSourceKey(job[k].source)) =>
              /\ (job[i].pc = "tier2source" /\ job'[i].pc = "tier2content") =>
                    job[k].pc # "tier2source"
              /\ (job[i].sourceAnalysis # Undefined /\ now <= SourceTTL
                      /\ job[k].pc # "tier2source") => job'[k].pc # "tier2source"
      ]_vars

\* C25: when initializeUser runs, the userId of the App becomes the id that
\* is stored from then on; an id that is stored is never replaced, and is the
\* one the App gets; an id is stored only by initializeUser, run for the
\* mounted App a full 1000 ms after it was mounted; an App that is not mounted
\* holds no userId, and nothing is stored while it is not mounted.
C25_UserIdIsStoredId ==
    [][ /\ (client.app.isLoading /\ ~client'.app.isLoading) =>
              /\ client'.app.userId = client'.storage
              /\ client'.storage # <<>>
        /\ client.storage # <<>> => client'.storage = client.storage
        /\ client'.storage # client.storage =>
              /\ client.app.mounted
              /\ client.app.timer.due = client.clock
              /\ client.app.timer \in client.timers
              /\ client'.app.userId = client'.storage
              /\ client'.storage[2] = client.clock
        /\ ~client'.app.mounted => client'.app.userId = <<>>
        /\ (client'.app.mounted /\ ~client'.app.isLoading) =>
              client'.app.userId = client'.storage
      ]_vars

\* the App was unmounted before its first timer fired and nothing was stored
\* then; mounted again half a second later, it generated and stored an id
\* 1000 ms after that; mounted a third time, it got the same id
C25_Witness ==
    /\ client.app.mounts = 3
    /\ client.app.mounted
    /\ ~client.app.isLoading
    /\ client.storage = generateUserId(1500, 2)
    /\ client.app.userId = client.storage
    /\ client.clock = 2500

\* C26: a search call that starts while another call with the same (query,
\* sources, limit) is pending, nothing being stored yet, issues its own four
\* provider searches, as the pending call did; and the entry of the cache
\* changes only when a call stores its result, to that result: the entry is
\* always the result of the call that stored last.
C26_LastStoreWins ==
    [][ \A c \in Calls :
          LET k == ctnNewsKey(call'[c].query, call'[c].sources, call'[c].limit)
              same(d) == /\ d # c
                         /\ call[d].pc = "awaiting"
                         /\ ctnNewsKey(call[d].query, call[d].sources, call[d].limit) = k
          IN /\ (call[c].pc = "idle" /\ call'[c].pc # "idle" /\ \E d \in Calls : same(d)) =>
                    /\ call'[c].pc = "awaiting"
                    /\ exaCalls'[c] = 4
                    /\ \A d \in Calls : same(d) => exaCalls'[d] = 4
             /\ (call[c].pc = "awaiting" /\ call'[c].pc = "resolved") =>
                    CacheGet(ctnCache', k, now) = call'[c].out
             /\ ctnCache' # ctnCache =>
                    \E d \in Calls : call[d].pc = "awaiting" /\ call'[d].pc = "resolved"
      ]_vars

\* both calls were pending together, each made four searches, they returned
\* different results, and the cache holds the result of c1, which stored last
C26_Witness ==
    /\ call["c1"].how = "search"
    /\ call["c2"].how = "search"
    /\ call["c1"].query = call["c2"].query
    /\ exaCalls["c1"] = 4
    /\ exaCalls["c2"] = 4
    /\ call["c1"].out # call["c2"].out
    /\ CacheGet(ctnCache, ctnNewsKey(call["c1"].query, "", JsInt(2)), now) = call["c1"].out

MirrorText(text) ==
    [i \in 1 .. Len(text) |-> IF text[i] = "progressive" THEN "crime"
                              ELSE IF text[i] = "crime" THEN "progressive" ELSE text[i]]

MirrorSource(source) ==
    IF source = "vox" THEN "foxnews" ELSE IF source = "foxnews" THEN "vox" ELSE source

MirrorLabel(label) ==
    CASE label = "Liberal" -> "Conservative"
      [] label = "Conservative" -> "Liberal"
      [] label = "Highly Liberal" -> "Highly Conservative"
      [] label = "Highly Conservative" -> "Highly Liberal"
      [] OTHER -> label

\* the heuristic returns one result for the article of j, whatever is drawn
Deterministic(j) ==
    \A r1, r2 \in Randoms :
        ctnAnalyzeContentBasedBias(j.title, j.content, j.source, r1)
            = ctnAnalyzeContentBasedBias(j.title, j.content, j.source, r2)

\* C29: when the heuristic has judged an article and then the article with
\* the keywords of the two sides and the source lists exchanged, and draws
\* nothing at random for either, the second biasScore is 100 minus the
\* first, the confidence is the same and the label is the mirrored one.
C29_SidesSymmetric ==
    (/\ job[1].how = "tier3"
     /\ job[2].how = "tier3"
     /\ job[2].title = MirrorText(job[1].title)
     /\ job[2].content = MirrorText(job[1].content)
     /\ job[2].source = MirrorSource(job[1].source)
     /\ Deterministic(job[1])
     /\ Deterministic(job[2])) =>
        /\ job[2].out.biasScore = JsInt(100 - job[1].out.biasScore.n)
        /\ job[2].out.confidence = job[1].out.confidence
        /\ job[2].out.biasLabel.s[1] = MirrorLabel(job[1].out.biasLabel.s[1])

\* C30: when the heuristic has judged the same (title, content, source)
\* twice and the liberal and conservative scores, source boost included,
\* differ, or the source is 'vox' or 'foxnews', each on its list, the two
\* runs return the same biasScore, biasLabel and confidence; that is, two
\* runs differ only when the scores are equal and the source is on no list.
C30_RandomOnlyOnTies ==
    LET listed == job[1].source \in {"vox", "foxnews"}
        liberalScore == KeywordScore(job[1].title, job[1].content, "liberal")
                            + (IF job[1].source = "vox" THEN 10 ELSE 0)
        conservativeScore == KeywordScore(job[1].title, job[1].content, "conservative")
                                 + (IF job[1].source = "foxnews" THEN 10 ELSE 0)
    IN (/\ job[1].how = "tier3"
        /\ job[2].how = "tier3"
        /\ job[2].title = job[1].title
        /\ job[2].content = job[1].content
        /\ job[2].source = job[1].source
        /\ (liberalScore # conservativeScore \/ listed)) =>
           /\ job[2].out.biasScore = job[1].out.biasScore
           /\ job[2].out.biasLabel = job[1].out.biasLabel
           /\ job[2].out.confidence = job[1].out.confidence

\* two runs on one article with one keyword of each side, from a source on
\* no list, returned 35 Liberal and 65 Conservative
C30_Witness ==
    /\ job[1].how = "tier3"
    /\ job[2].how = "tier3"
    /\ job[1].source = "Unknown Source"
    /\ job[1].content = <<"progressive", "crime">>
    /\ job[2].title = job[1].title
    /\ job[2].content = job[1].content
    /\ job[2].source = job[1].source
    /\ job[1].out.biasScore = JsInt(35)
    /\ job[2].out.biasScore = JsInt(65)
    /\ job[2].out.biasLabel # job[1].out.biasLabel

====
